---------------------------- MODULE Spec2Model ----------------------------
(***************************************************************************)
(* Model of the message adapter of the Decepticon front end:               *)
(*   src/frontend/web/core/message_processor.py  (class MessageProcessor)  *)
(*                                                                         *)
(* Python text is modelled as a sequence of one-character strings, so that *)
(* lower(), strip(), replace(), slicing and the substring test `in` are    *)
(* computed character by character, as the interpreter computes them.      *)
(* A dictionary lookup d.get(k) that finds no key is the value Absent; a   *)
(* key present with the value None is the value None.                      *)
(***************************************************************************)
EXTENDS Integers, Sequences, FiniteSets, TLC

VARIABLES
    pc,         \* "start" before the call under study, "done" after it
    event,      \* process_cli_event: the argument event_data
    clock,      \* the wall clock datetime.now().timestamp() reads
    result,     \* process_cli_event: the returned message, or the exception raised
    events,     \* extract_agent_status: the argument events
    status,     \* extract_agent_status: the returned status
    new_message,        \* is_duplicate_message: the candidate
    existing_messages,  \* is_duplicate_message: the list searched
    duplicate,          \* is_duplicate_message: [returned |-> the bool returned]
    page,               \* 01_Chat.py: where the current script run of the page stands
    workflow_running,   \* st.session_state.workflow_running (absent reads as False)
    cancel_workflow,    \* st.session_state.cancel_workflow
    pending_new_chat,   \* st.session_state.pending_new_chat
    new_chat_requests,  \* calls of _create_new_chat so far
    deferred_requests,  \* those of them that were deferred
    finalized_direct,   \* calls of _finalize_new_chat from _create_new_chat
    finalized_deferred  \* calls of _finalize_new_chat from a deferred check

\* The state of the chat page.
chat_vars == << page, workflow_running, cancel_workflow, pending_new_chat,
               new_chat_requests, deferred_requests, finalized_direct,
               finalized_deferred >>

vars == << pc, event, clock, result, events, status,
           new_message, existing_messages, duplicate, chat_vars >>

---------------------------------------------------------------------------
(* Values of Python that are not text.                                     *)

\* d.get(k) on a dictionary without the key k, before any default applies.
\* (A one-element sequence whose element is no character, so that it can be
\* compared with text and never equals any.)
Absent == << "<absent>" >>

\* The Python value None.
None == << "<None>" >>

---------------------------------------------------------------------------
(* Text: str.lower, str.strip, str.replace, the `in` test, slicing.        *)

UpperLetters ==
    << "A", "B", "C", "D", "E", "F", "G", "H", "I", "J", "K", "L", "M",
       "N", "O", "P", "Q", "R", "S", "T", "U", "V", "W", "X", "Y", "Z" >>

LowerLetters ==
    << "a", "b", "c", "d", "e", "f", "g", "h", "i", "j", "k", "l", "m",
       "n", "o", "p", "q", "r", "s", "t", "u", "v", "w", "x", "y", "z" >>

\* The character ` (a string of the module cannot hold it).
Backtick == "<backtick>"

\* The characters str.strip() removes from both ends (the ASCII whitespace that
\* the drawn inputs use).
Whitespace == { " ", "\t", "\n", "\r" }

\* One character of str.lower().
LowerChar(c) ==
    IF \E i \in 1..Len(UpperLetters) : UpperLetters[i] = c
    THEN LowerLetters[CHOOSE i \in 1..Len(UpperLetters) : UpperLetters[i] = c]
    ELSE c

\* One character of str.upper(); used to write inputs in other cases only.
UpperChar(c) ==
    IF \E i \in 1..Len(LowerLetters) : LowerLetters[i] = c
    THEN UpperLetters[CHOOSE i \in 1..Len(LowerLetters) : LowerLetters[i] = c]
    ELSE c

\* s.lower()
Lower(s) == [i \in 1..Len(s) |-> LowerChar(s[i])]

\* s.upper()
Upper(s) == [i \in 1..Len(s) |-> UpperChar(s[i])]

\* s.replace(a, b) for one-character a and b.
Replace(s, a, b) == [i \in 1..Len(s) |-> IF s[i] = a THEN b ELSE s[i]]

\* s.strip()
Strip(s) ==
    LET keep == { i \in 1..Len(s) : s[i] \notin Whitespace }
    IN  IF keep = {} THEN << >>
        ELSE LET lo == CHOOSE i \in keep : \A j \in keep : i <= j
                 hi == CHOOSE i \in keep : \A j \in keep : j <= i
             IN  SubSeq(s, lo, hi)

\* sub in s
Contains(sub, s) ==
    \E i \in 1..(Len(s) - Len(sub) + 1) :
        \A j \in 1..Len(sub) : s[i + j - 1] = sub[j]

\* s[:n]
Prefix(s, n) == IF Len(s) <= n THEN s ELSE SubSeq(s, 1, n)

\* Python truthiness of a value that is Absent, None or text.
Truthy(v) == v # Absent /\ v # None /\ v # << >>

\* v or ""
OrEmpty(v) == IF Truthy(v) THEN v ELSE << >>

\* d.get(k, default): the default replaces an absent key only.
GetDefault(v, default) == IF v = Absent THEN default ELSE v

\* d.get(k): an absent key reads as None.
Get(v) == GetDefault(v, None)

---------------------------------------------------------------------------
(* The two gates and their fallback templates.                             *)

\* required_heading of _sanitize_initial_access_output
initial_access_required_heading ==
    <<"i", "n", "i", "t", "i", "a", "l", " ", "a", "c", "c", "e", "s", "s", " ", "a", "s", "s", "e", "s", "s",
       "m", "e", "n", "t", " ", "(", "s", "i", "m", "u", "l", "a", "t", "e", "d", ")">>

\* banned_terms of _sanitize_initial_access_output
initial_access_banned_terms ==
    << <<"c", "v", "e">>,
       <<"e", "x", "p", "l", "o", "i", "t">>,
       <<"b", "a", "c", "k", "d", "o", "o", "r">>,
       <<"r", "c", "e">>,
       <<"s", "h", "e", "l", "l">>,
       <<"r", "o", "o", "t">>,
       <<"m", "e", "t", "a", "s", "p", "l", "o", "i", "t">>,
       <<"e", "t", "e", "r", "n", "a", "l", "b", "l", "u", "e">>,
       <<"b", "r", "u", "t", "e", "-", "f", "o", "r", "c", "e">>,
       <<"b", "r", "u", "t", "e", "f", "o", "r", "c", "e">>,
       <<"c", "o", "m", "m", "a", "n", "d">>,
       <<"p", "a", "y", "l", "o", "a", "d">>,
       <<"p", "o", "r", "t", "-", "b", "y", "-", "p", "o", "r", "t">> >>

\* required_heading of _sanitize_summary_output
summary_required_heading ==
    <<"e", "n", "g", "a", "g", "e", "m", "e", "n", "t", " ", "s", "u", "m", "m", "a", "r", "y",
       " ", "(", "p", "u", "b", "l", "i", "c", " ", "d", "e", "m", "o", " ", "s", "a", "f", "e", ")">>

\* banned_terms of _sanitize_summary_output
summary_banned_terms ==
    << <<"c", "v", "e">>,
       <<"e", "x", "p", "l", "o", "i", "t">>,
       <<"b", "a", "c", "k", "d", "o", "o", "r">>,
       <<"m", "e", "t", "a", "s", "p", "l", "o", "i", "t">>,
       <<"m", "s", "f", "c", "o", "n", "s", "o", "l", "e">>,
       <<"p", "a", "y", "l", "o", "a", "d">>,
       <<"r", "e", "v", "e", "r", "s", "e", " ", "s", "h", "e", "l", "l">>,
       <<"n", "e", "t", "c", "a", "t">>,
       <<"h", "y", "d", "r", "a">>,
       <<"s", "q", "l", "m", "a", "p">>,
       <<"c", "o", "m", "m", "a", "n", "d">>,
       <<"r", "c", "e">>,
       <<"r", "e", "m", "o", "t", "e", " ", "c", "o", "m", "m", "a", "n", "d", " ", "e", "x", "e", "c", "u", "t", "i", "o", "n">>,
       <<"s", "h", "e", "l", "l">>,
       <<Backtick, Backtick, Backtick>> >>

\* _initial_access_safe_template()
initial_access_safe_template ==
    << "I", "n", "i", "t", "i", "a", "l", " ", "A", "c", "c", "e", "s", "s", " ", "A",
       "s", "s", "e", "s", "s", "m", "e", "n", "t", " ", "(", "S", "i", "m", "u", "l",
       "a", "t", "e", "d", ")", "\n", "\n", "S", "e", "l", "e", "c", "t", "e", "d", " ",
       "E", "n", "t", "r", "y", " ", "V", "e", "c", "t", "o", "r", ":", "\n", "L", "e",
       "g", "a", "c", "y", " ", "f", "i", "l", "e", " ", "t", "r", "a", "n", "s", "f",
       "e", "r", " ", "s", "e", "r", "v", "i", "c", "e", " ", "e", "x", "p", "o", "s",
       "e", "d", " ", "t", "o", " ", "t", "h", "e", " ", "n", "e", "t", "w", "o", "r",
       "k", "\n", "\n", "R", "e", "a", "s", "o", "n", " ", "f", "o", "r", " ", "S", "e",
       "l", "e", "c", "t", "i", "o", "n", ":", "\n", "T", "h", "e", " ", "r", "e", "c",
       "o", "n", "n", "a", "i", "s", "s", "a", "n", "c", "e", " ", "p", "h", "a", "s",
       "e", " ", "i", "d", "e", "n", "t", "i", "f", "i", "e", "d", " ", "a", "n", " ",
       "o", "u", "t", "d", "a", "t", "e", "d", " ", "e", "x", "t", "e", "r", "n", "a",
       "l", "l", "y", " ", "a", "c", "c", "e", "s", "s", "i", "b", "l", "e", " ", "s",
       "e", "r", "v", "i", "c", "e", ".", " ", "F", "r", "o", "m", " ", "a", " ", "r",
       "i", "s", "k", " ", "p", "e", "r", "s", "p", "e", "c", "t", "i", "v", "e", ",",
       " ", "l", "e", "g", "a", "c", "y", " ", "s", "e", "r", "v", "i", "c", "e", "s",
       " ", "o", "f", "t", "e", "n", " ", "p", "r", "e", "s", "e", "n", "t", " ", "h",
       "i", "g", "h", "e", "r", " ", "e", "x", "p", "o", "s", "u", "r", "e", " ", "d",
       "u", "e", " ", "t", "o", " ", "a", "g", "e", ",", " ", "r", "e", "d", "u", "c",
       "e", "d", " ", "m", "a", "i", "n", "t", "e", "n", "a", "n", "c", "e", ",", " ",
       "a", "n", "d", " ", "h", "i", "s", "t", "o", "r", "i", "c", "a", "l", "l", "y",
       " ", "w", "e", "a", "k", "e", "r", " ", "s", "e", "c", "u", "r", "i", "t", "y",
       " ", "c", "o", "n", "t", "r", "o", "l", "s", ",", " ", "m", "a", "k", "i", "n",
       "g", " ", "t", "h", "e", "m", " ", "a", " ", "c", "o", "m", "m", "o", "n", " ",
       "i", "n", "i", "t", "i", "a", "l", " ", "a", "c", "c", "e", "s", "s", " ", "c",
       "a", "n", "d", "i", "d", "a", "t", "e", " ", "i", "n", " ", "c", "o", "n", "t",
       "r", "o", "l", "l", "e", "d", " ", "e", "n", "v", "i", "r", "o", "n", "m", "e",
       "n", "t", "s", ".", "\n", "\n", "R", "e", "q", "u", "i", "r", "e", "d", " ", "P",
       "r", "e", "c", "o", "n", "d", "i", "t", "i", "o", "n", "s", ":", "\n", "-", " ",
       "N", "e", "t", "w", "o", "r", "k", " ", "c", "o", "n", "n", "e", "c", "t", "i",
       "v", "i", "t", "y", " ", "t", "o", " ", "t", "h", "e", " ", "t", "a", "r", "g",
       "e", "t", " ", "s", "y", "s", "t", "e", "m", "\n", "-", " ", "S", "e", "r", "v",
       "i", "c", "e", " ", "a", "c", "c", "e", "s", "s", "i", "b", "l", "e", " ", "w",
       "i", "t", "h", "o", "u", "t", " ", "r", "e", "s", "t", "r", "i", "c", "t", "i",
       "v", "e", " ", "a", "c", "c", "e", "s", "s", " ", "c", "o", "n", "t", "r", "o",
       "l", "s", "\n", "\n", "E", "x", "p", "e", "c", "t", "e", "d", " ", "O", "u", "t",
       "c", "o", "m", "e", " ", "(", "S", "i", "m", "u", "l", "a", "t", "e", "d", ")",
       ":", "\n", "P", "o", "t", "e", "n", "t", "i", "a", "l", " ", "i", "n", "i", "t",
       "i", "a", "l", " ", "f", "o", "o", "t", "h", "o", "l", "d", " ", "w", "i", "t",
       "h", " ", "l", "i", "m", "i", "t", "e", "d", " ", "p", "r", "i", "v", "i", "l",
       "e", "g", "e", "s", ",", " ", "e", "n", "a", "b", "l", "i", "n", "g", " ", "f",
       "u", "r", "t", "h", "e", "r", " ", "i", "m", "p", "a", "c", "t", " ", "a", "s",
       "s", "e", "s", "s", "m", "e", "n", "t", ".", "\n", "\n", "R", "i", "s", "k", " ",
       "L", "e", "v", "e", "l", ":", "\n", "C", "r", "i", "t", "i", "c", "a", "l", "\n",
       "\n", "C", "o", "n", "f", "i", "d", "e", "n", "c", "e", " ", "L", "e", "v", "e",
       "l", ":", "\n", "H", "i", "g", "h", "\n", "\n", "P", "o", "t", "e", "n", "t", "i",
       "a", "l", " ", "N", "e", "x", "t", " ", "S", "t", "e", "p", "s", " ", "(", "T",
       "h", "e", "o", "r", "e", "t", "i", "c", "a", "l", ")", ":", "\n", "-", " ", "P",
       "r", "i", "v", "i", "l", "e", "g", "e", " ", "e", "s", "c", "a", "l", "a", "t",
       "i", "o", "n", " ", "r", "i", "s", "k", " ", "e", "v", "a", "l", "u", "a", "t",
       "i", "o", "n", "\n", "-", " ", "L", "a", "t", "e", "r", "a", "l", " ", "m", "o",
       "v", "e", "m", "e", "n", "t", " ", "e", "x", "p", "o", "s", "u", "r", "e", " ",
       "a", "s", "s", "e", "s", "s", "m", "e", "n", "t", "\n", "-", " ", "P", "e", "r",
       "s", "i", "s", "t", "e", "n", "c", "e", " ", "a", "n", "d", " ", "d", "e", "t",
       "e", "c", "t", "i", "o", "n", " ", "i", "m", "p", "a", "c", "t", " ", "r", "e",
       "v", "i", "e", "w" >>

\* _summary_safe_template()
summary_safe_template ==
    << "E", "n", "g", "a", "g", "e", "m", "e", "n", "t", " ", "S", "u", "m", "m", "a",
       "r", "y", " ", "(", "P", "u", "b", "l", "i", "c", " ", "D", "e", "m", "o", " ",
       "S", "a", "f", "e", ")", "\n", "\n", "E", "x", "e", "c", "u", "t", "i", "v", "e",
       " ", "O", "v", "e", "r", "v", "i", "e", "w", ":", "\n", "T", "h", "e", " ", "a",
       "s", "s", "e", "s", "s", "m", "e", "n", "t", " ", "i", "d", "e", "n", "t", "i",
       "f", "i", "e", "d", " ", "e", "x", "t", "e", "r", "n", "a", "l", "l", "y", " ",
       "e", "x", "p", "o", "s", "e", "d", " ", "s", "e", "r", "v", "i", "c", "e", "s",
       " ", "w", "i", "t", "h", " ", "i", "n", "d", "i", "c", "a", "t", "o", "r", "s",
       " ", "o", "f", " ", "o", "u", "t", "d", "a", "t", "e", "d", " ", "c", "o", "n",
       "f", "i", "g", "u", "r", "a", "t", "i", "o", "n", "s", " ", "a", "n", "d", " ",
       "i", "n", "s", "u", "f", "f", "i", "c", "i", "e", "n", "t", " ", "a", "c", "c",
       "e", "s", "s", " ", "c", "o", "n", "t", "r", "o", "l", "s", ".", " ", "T", "h",
       "e", "s", "e", " ", "c", "o", "n", "d", "i", "t", "i", "o", "n", "s", " ", "i",
       "n", "c", "r", "e", "a", "s", "e", " ", "t", "h", "e", " ", "l", "i", "k", "e",
       "l", "i", "h", "o", "o", "d", " ", "o", "f", " ", "u", "n", "a", "u", "t", "h",
       "o", "r", "i", "z", "e", "d", " ", "a", "c", "c", "e", "s", "s", " ", "a", "t",
       "t", "e", "m", "p", "t", "s", " ", "a", "n", "d", " ", "e", "l", "e", "v", "a",
       "t", "e", " ", "o", "v", "e", "r", "a", "l", "l", " ", "r", "i", "s", "k", ".",
       "\n", "\n", "K", "e", "y", " ", "O", "b", "s", "e", "r", "v", "a", "t", "i", "o",
       "n", "s", ":", "\n", "-", " ", "M", "u", "l", "t", "i", "p", "l", "e", " ", "n",
       "e", "t", "w", "o", "r", "k", "-", "e", "x", "p", "o", "s", "e", "d", " ", "s",
       "e", "r", "v", "i", "c", "e", "s", " ", "w", "e", "r", "e", " ", "i", "d", "e",
       "n", "t", "i", "f", "i", "e", "d", " ", "t", "h", "a", "t", " ", "w", "a", "r",
       "r", "a", "n", "t", " ", "h", "a", "r", "d", "e", "n", "i", "n", "g", " ", "a",
       "n", "d", " ", "a", "c", "c", "e", "s", "s", " ", "r", "e", "v", "i", "e", "w",
       "\n", "-", " ", "S", "e", "r", "v", "i", "c", "e", " ", "c", "o", "n", "f", "i",
       "g", "u", "r", "a", "t", "i", "o", "n", " ", "a", "n", "d", " ", "v", "e", "r",
       "s", "i", "o", "n", " ", "h", "y", "g", "i", "e", "n", "e", " ", "a", "p", "p",
       "e", "a", "r", " ", "i", "n", "c", "o", "n", "s", "i", "s", "t", "e", "n", "t",
       "\n", "-", " ", "P", "r", "e", "v", "e", "n", "t", "i", "v", "e", " ", "c", "o",
       "n", "t", "r", "o", "l", "s", " ", "(", "s", "e", "g", "m", "e", "n", "t", "a",
       "t", "i", "o", "n", ",", " ", "a", "l", "l", "o", "w", "l", "i", "s", "t", "i",
       "n", "g", ",", " ", "a", "n", "d", " ", "m", "o", "n", "i", "t", "o", "r", "i",
       "n", "g", ")", " ", "s", "h", "o", "u", "l", "d", " ", "b", "e", " ", "s", "t",
       "r", "e", "n", "g", "t", "h", "e", "n", "e", "d", "\n", "\n", "P", "r", "i", "m",
       "a", "r", "y", " ", "R", "i", "s", "k", "s", ":", "\n", "-", " ", "U", "n", "a",
       "u", "t", "h", "o", "r", "i", "z", "e", "d", " ", "a", "c", "c", "e", "s", "s",
       " ", "v", "i", "a", " ", "e", "x", "p", "o", "s", "e", "d", " ", "s", "e", "r",
       "v", "i", "c", "e", "s", " ", "(", "I", "m", "p", "a", "c", "t", ":", " ", "H",
       "i", "g", "h", ",", " ", "L", "i", "k", "e", "l", "i", "h", "o", "o", "d", ":",
       " ", "M", "e", "d", "i", "u", "m", ")", "\n", "-", " ", "C", "r", "e", "d", "e",
       "n", "t", "i", "a", "l", " ", "e", "x", "p", "o", "s", "u", "r", "e", " ", "o",
       "r", " ", "w", "e", "a", "k", " ", "a", "u", "t", "h", "e", "n", "t", "i", "c",
       "a", "t", "i", "o", "n", " ", "c", "o", "n", "t", "r", "o", "l", "s", " ", "(",
       "I", "m", "p", "a", "c", "t", ":", " ", "H", "i", "g", "h", ",", " ", "L", "i",
       "k", "e", "l", "i", "h", "o", "o", "d", ":", " ", "M", "e", "d", "i", "u", "m",
       ")", "\n", "\n", "R", "e", "c", "o", "m", "m", "e", "n", "d", "e", "d", " ", "M",
       "i", "t", "i", "g", "a", "t", "i", "o", "n", "s", " ", "(", "N", "o", "n", "-",
       "O", "p", "e", "r", "a", "t", "i", "o", "n", "a", "l", ")", ":", "\n", "-", " ",
       "R", "e", "d", "u", "c", "e", " ", "e", "x", "t", "e", "r", "n", "a", "l", " ",
       "e", "x", "p", "o", "s", "u", "r", "e", " ", "t", "o", " ", "o", "n", "l", "y",
       " ", "r", "e", "q", "u", "i", "r", "e", "d", " ", "s", "e", "r", "v", "i", "c",
       "e", "s", " ", "a", "n", "d", " ", "e", "n", "f", "o", "r", "c", "e", " ", "s",
       "t", "r", "i", "c", "t", " ", "a", "c", "c", "e", "s", "s", " ", "p", "o", "l",
       "i", "c", "i", "e", "s", "\n", "-", " ", "S", "t", "a", "n", "d", "a", "r", "d",
       "i", "z", "e", " ", "p", "a", "t", "c", "h", "i", "n", "g", "/", "v", "e", "r",
       "s", "i", "o", "n", " ", "m", "a", "n", "a", "g", "e", "m", "e", "n", "t", " ",
       "a", "n", "d", " ", "c", "o", "n", "f", "i", "g", "u", "r", "a", "t", "i", "o",
       "n", " ", "b", "a", "s", "e", "l", "i", "n", "e", "s", "\n", "-", " ", "S", "t",
       "r", "e", "n", "g", "t", "h", "e", "n", " ", "a", "u", "t", "h", "e", "n", "t",
       "i", "c", "a", "t", "i", "o", "n", ",", " ", "l", "o", "g", "g", "i", "n", "g",
       ",", " ", "a", "n", "d", " ", "m", "o", "n", "i", "t", "o", "r", "i", "n", "g",
       " ", "f", "o", "r", " ", "e", "x", "t", "e", "r", "n", "a", "l", "l", "y", " ",
       "r", "e", "a", "c", "h", "a", "b", "l", "e", " ", "s", "y", "s", "t", "e", "m",
       "s", "\n", "\n", "S", "c", "o", "p", "e", " ", "&", " ", "L", "i", "m", "i", "t",
       "a", "t", "i", "o", "n", "s", ":", "\n", "-", " ", "F", "i", "n", "d", "i", "n",
       "g", "s", " ", "a", "r", "e", " ", "b", "a", "s", "e", "d", " ", "o", "n", " ",
       "o", "b", "s", "e", "r", "v", "e", "d", " ", "s", "e", "r", "v", "i", "c", "e",
       " ", "e", "x", "p", "o", "s", "u", "r", "e", " ", "a", "n", "d", " ", "p", "r",
       "o", "v", "i", "d", "e", "d", " ", "r", "e", "c", "o", "n", "n", "a", "i", "s",
       "s", "a", "n", "c", "e", " ", "a", "r", "t", "i", "f", "a", "c", "t", "s", "\n",
       "-", " ", "T", "h", "i", "s", " ", "s", "u", "m", "m", "a", "r", "y", " ", "i",
       "n", "t", "e", "n", "t", "i", "o", "n", "a", "l", "l", "y", " ", "o", "m", "i",
       "t", "s", " ", "o", "p", "e", "r", "a", "t", "i", "o", "n", "a", "l", " ", "d",
       "e", "t", "a", "i", "l", " ", "t", "o", " ", "r", "e", "m", "a", "i", "n", " ",
       "p", "u", "b", "l", "i", "c", "-", "d", "e", "m", "o", " ", "s", "a", "f", "e",
       "\n", "\n", "N", "e", "x", "t", " ", "P", "h", "a", "s", "e", " ", "R", "e", "c",
       "o", "m", "m", "e", "n", "d", "a", "t", "i", "o", "n", ":", "\n", "P", "r", "o",
       "c", "e", "e", "d", " ", "w", "i", "t", "h", " ", "p", "r", "i", "o", "r", "i",
       "t", "i", "z", "e", "d", " ", "r", "e", "m", "e", "d", "i", "a", "t", "i", "o",
       "n", " ", "v", "a", "l", "i", "d", "a", "t", "i", "o", "n", " ", "a", "n", "d",
       " ", "s", "e", "c", "u", "r", "i", "t", "y", " ", "c", "o", "n", "t", "r", "o",
       "l", " ", "r", "e", "v", "i", "e", "w", " ", "t", "o", " ", "r", "e", "d", "u",
       "c", "e", " ", "e", "x", "p", "o", "s", "u", "r", "e", " ", "a", "n", "d", " ",
       "c", "o", "n", "f", "i", "r", "m", " ", "r", "i", "s", "k", " ", "r", "e", "d",
       "u", "c", "t", "i", "o", "n", "." >>

---------------------------------------------------------------------------
(* Literals of the source.                                                 *)

T_ai == << "a", "i" >>
T_tool == << "t", "o", "o", "l" >>
T_user == << "u", "s", "e", "r" >>
T_message == << "m", "e", "s", "s", "a", "g", "e" >>
T_Unknown == << "U", "n", "k", "n", "o", "w", "n" >>
T_Unknown_Tool == << "U", "n", "k", "n", "o", "w", "n", " ", "T", "o", "o", "l" >>
T_None == << "N", "o", "n", "e" >>
T_summary == << "s", "u", "m", "m", "a", "r", "y" >>
T_initial_access ==
    << "i", "n", "i", "t", "i", "a", "l", "_", "a", "c", "c", "e", "s", "s" >>
T_agent == << "a", "g", "e", "n", "t" >>

---------------------------------------------------------------------------
(* hash(), str() and the f-strings that build a message id.                *)

Digits == << "0", "1", "2", "3", "4", "5", "6", "7", "8", "9" >>

\* str(n) of a natural number.
RECURSIVE Str(_)
Str(n) == IF n < 10 THEN << Digits[n + 1] >>
          ELSE Str(n \div 10) \o << Digits[(n % 10) + 1] >>

\* The code point of a letter; every other character counts as a space.
CharCode(c) ==
    IF \E i \in 1..26 : LowerLetters[i] = c
    THEN 96 + (CHOOSE i \in 1..26 : LowerLetters[i] = c)
    ELSE IF \E i \in 1..26 : UpperLetters[i] = c
    THEN 64 + (CHOOSE i \in 1..26 : UpperLetters[i] = c)
    ELSE 32

\* The range of the modelled hash.
HashMod == 64

\* The sum of position times code point over s[lo..hi], halving the range.
RECURSIVE HashRange(_, _, _)
HashRange(s, lo, hi) ==
    IF lo > hi THEN 0
    ELSE IF lo = hi THEN (lo * CharCode(s[lo])) % HashMod
    ELSE LET mid == (lo + hi) \div 2
         IN  (HashRange(s, lo, mid) + HashRange(s, mid + 1, hi)) % HashMod

HashText(s) == (7 + HashRange(s, 1, Len(s))) % HashMod

\* hash(v): a function of the value, not injective; None is hashable.
Hash(v) == IF v = None THEN 1 ELSE HashText(v)

\* f"{v}" of a value that is None or text.
Format(v) == IF v = None THEN T_None ELSE v

---------------------------------------------------------------------------
(* Collaborators outside this file.                                        *)

\* AgentManager.get_display_name(agent_name): a static lookup, never an error.
get_display_name(agent_name) == << "display_name of", agent_name >>

\* AgentManager.get_avatar(agent_name): a static lookup, never an error.
get_avatar(agent_name) == << "avatar of", agent_name >>

\* parse_tool_name(tool_name): the human-friendly form of a tool name.
parse_tool_name(tool_name) == << "parsed", tool_name >>

\* extract_tool_calls(raw_message, event_data): the structured calls the raw
\* message carries; raw_message is modelled by that list.
extract_tool_calls(raw_message, event_data) ==
    IF raw_message \in { Absent, None } THEN << >> ELSE raw_message

---------------------------------------------------------------------------
(* Role classification.                                                    *)

\* A classifier that knows the canonical spellings only.
_is_initial_access_agent_exact(agent_name) ==
    LET val == Lower(Strip(OrEmpty(agent_name)))
    IN  val \in { T_initial_access,
                  T_initial_access \o << "_" >> \o T_agent,
                  T_initial_access \o << "\n" >> }

_is_initial_access_agent(agent_name) ==
    LET val == Lower(Strip(OrEmpty(agent_name)))
    IN  \/ val \in { T_initial_access,
                     T_initial_access \o << "_" >> \o T_agent,
                     T_initial_access \o << "\n" >> }
        \/ Contains(T_initial_access, val)
        \/ Contains(T_initial_access, Replace(val, " ", "_"))
        \/ Contains(T_initial_access, Replace(val, "-", "_"))
        \/ Contains(T_initial_access, Replace(val, ".", "_"))
        \/ Contains(T_initial_access, Replace(val, "/", "_"))
        \/ Contains(T_initial_access, val)

_is_summary_agent(agent_name) ==
    LET val == Lower(Strip(OrEmpty(agent_name)))
    IN  val = T_summary \/ Contains(T_summary, val)

---------------------------------------------------------------------------
(* The sanitizers.                                                         *)

\* A fallback text whose last line names the account gained.
initial_access_template_naming_root ==
    initial_access_safe_template \o << " ", "(", "r", "o", "o", "t", ")" >>

_initial_access_safe_template == initial_access_safe_template

_summary_safe_template == summary_safe_template

_sanitize_initial_access_output(content) ==
    LET text == OrEmpty(content)
        lowered == Lower(text)
    IN  IF ~ Contains(initial_access_required_heading, lowered)
        THEN _initial_access_safe_template
        ELSE IF \E k \in 1..Len(initial_access_banned_terms) :
                    Contains(initial_access_banned_terms[k], lowered)
        THEN _initial_access_safe_template
        ELSE text

\* A summary gate that checks the heading and no banned term.
_sanitize_summary_heading_only(content) ==
    LET text == OrEmpty(content)
    IN  IF ~ Contains(summary_required_heading, Lower(text))
        THEN _summary_safe_template
        ELSE text

_sanitize_summary_output(content) ==
    LET text == OrEmpty(content)
        lowered == Lower(text)
    IN  IF ~ Contains(summary_required_heading, lowered)
        THEN _summary_safe_template
        ELSE IF \E k \in 1..Len(summary_banned_terms) :
                    Contains(summary_banned_terms[k], lowered)
        THEN _summary_safe_template
        ELSE text

---------------------------------------------------------------------------
(* process_cli_event and the three message constructors.                   *)

\* An exception leaving the call.
Raise(exc) == [raised |-> exc]

Raised(r) == "raised" \in DOMAIN r

\* The call returned a message.
Returned(r) == "type" \in DOMAIN r

\* The content after the role's sanitizer, if the role has one.
\* A role dispatch that asks for the summary role first.
SanitizedContentSummaryFirst(agent_name, content) ==
    IF _is_summary_agent(agent_name)
    THEN _sanitize_summary_output(content)
    ELSE IF _is_initial_access_agent(agent_name)
    THEN _sanitize_initial_access_output(content)
    ELSE content

SanitizedContent(agent_name, content) ==
    IF _is_initial_access_agent(agent_name)
    THEN _sanitize_initial_access_output(content)
    ELSE IF _is_summary_agent(agent_name)
    THEN _sanitize_summary_output(content)
    ELSE content

_create_ai_message(agent_name, display_name, avatar, content, raw_message, event_data, now) ==
    LET c == SanitizedContent(agent_name, content)
    IN  IF agent_name = None
        THEN Raise("AttributeError")     \* agent_name.lower()
        ELSE IF c = None
        THEN Raise("TypeError")          \* content[:100]
        ELSE LET message ==
                     [ type |-> T_ai,
                       agent_id |-> Lower(agent_name),
                       display_name |-> display_name,
                       avatar |-> avatar,
                       content |-> c,
                       id |-> T_ai \o << "_" >> \o Lower(agent_name) \o << "_" >>
                              \o Str(Hash(Prefix(c, 100))) \o << "_" >> \o Str(now) ]
                 tool_calls == extract_tool_calls(raw_message, event_data)
             IN  IF tool_calls # << >>
                 THEN message @@ [ tool_calls |-> tool_calls ]
                 ELSE message

_create_tool_message(event_data, content, now) ==
    LET tool_name == GetDefault(event_data.tool_name, T_Unknown_Tool)
        tool_display_name ==
            GetDefault(event_data.tool_display_name, parse_tool_name(tool_name))
    IN  IF content = None
        THEN Raise("TypeError")          \* content[:100]
        ELSE [ type |-> T_tool,
               tool_name |-> tool_name,
               tool_display_name |-> tool_display_name,
               content |-> content,
               id |-> T_tool \o << "_" >> \o Format(tool_name) \o << "_" >>
                      \o Str(Hash(Prefix(content, 100))) \o << "_" >> \o Str(now) ]

_create_user_message(content, now) ==
    [ type |-> T_user,
      content |-> content,
      id |-> T_user \o << "_" >> \o Str(Hash(content)) \o << "_" >> \o Str(now) ]

\* A dispatch whose last branch builds a user message.
process_cli_event_fallback_user(event_data, now) ==
    LET message_type == GetDefault(event_data.message_type, << >>)
        agent_name == GetDefault(event_data.agent_name, T_Unknown)
        content == GetDefault(event_data.content, << >>)
        raw_message == Get(event_data.raw_message)
        display_name == get_display_name(agent_name)
        avatar == get_avatar(agent_name)
    IN  IF message_type = T_ai
        THEN _create_ai_message(agent_name, display_name, avatar, content,
                                raw_message, event_data, now)
        ELSE IF message_type = T_tool
        THEN _create_tool_message(event_data, content, now)
        ELSE _create_user_message(content, now)

process_cli_event(event_data, now) ==
    LET message_type == GetDefault(event_data.message_type, << >>)
        agent_name == GetDefault(event_data.agent_name, T_Unknown)
        content == GetDefault(event_data.content, << >>)
        raw_message == Get(event_data.raw_message)
        display_name == get_display_name(agent_name)
        avatar == get_avatar(agent_name)
    IN  IF message_type = T_ai
        THEN _create_ai_message(agent_name, display_name, avatar, content,
                                raw_message, event_data, now)
        ELSE IF message_type = T_tool
        THEN _create_tool_message(event_data, content, now)
        ELSE IF message_type = T_user
        THEN _create_user_message(content, now)
        ELSE _create_ai_message(agent_name, display_name, avatar, content,
                                raw_message, event_data, now)

---------------------------------------------------------------------------
(* extract_agent_status.                                                   *)

\* for event in reversed(events): ... break, from index i down to 1; the value
\* status["active_agent"] holds after the loop.
RECURSIVE ScanReversed(_, _)
ScanReversed(evs, i) ==
    IF i = 0 THEN None
    ELSE IF Get(evs[i].type) = T_message /\ Get(evs[i].message_type) = T_ai
    THEN LET agent_name == Get(evs[i].agent_name)
         IN  IF Truthy(agent_name) /\ agent_name # T_Unknown
             THEN Lower(agent_name)
             ELSE ScanReversed(evs, i - 1)
    ELSE ScanReversed(evs, i - 1)

\* The same loop without reversed(): the oldest match is overwritten by none.
RECURSIVE ScanForward(_, _)
ScanForward(evs, i) ==
    IF i > Len(evs) THEN None
    ELSE IF Get(evs[i].type) = T_message /\ Get(evs[i].message_type) = T_ai
    THEN LET agent_name == Get(evs[i].agent_name)
         IN  IF Truthy(agent_name) /\ agent_name # T_Unknown
             THEN Lower(agent_name)
             ELSE ScanForward(evs, i + 1)
    ELSE ScanForward(evs, i + 1)

\* A scan that finds the oldest match, not the most recent.
active_agent_oldest_first(evs) == ScanForward(evs, 1)

\* status["active_agent"] after the loop over reversed(events).
active_agent_of(evs) == ScanReversed(evs, Len(evs))

\* A step count that counts every event.
current_step_all_events(evs) == Len(evs)

\* len([e for e in events if e.get("type") == "message"])
current_step_of(evs) ==
    Cardinality({ i \in 1..Len(evs) : Get(evs[i].type) = T_message })

extract_agent_status(evs) ==
    [ active_agent |-> active_agent_of(evs),
      completed_agents |-> << >>,
      current_step |-> current_step_of(evs) ]

---------------------------------------------------------------------------
(* is_duplicate_message.                                                   *)

\* A check by id alone.
is_duplicate_by_id_only(new, existing) ==
    LET new_id == Get(new.id)
    IN  Truthy(new_id) /\ \E k \in 1..Len(existing) : Get(existing[k].id) = new_id

\* A check by type, agent and content alone.
is_duplicate_by_content_only(new, existing) ==
    LET new_id == Get(new.id)
        new_agent == Get(new.agent_id)
        new_content == GetDefault(new.content, << >>)
    IN  /\ Truthy(new_id)
        /\ \E k \in 1..Len(existing) :
               /\ Get(existing[k].agent_id) = new_agent
               /\ Get(existing[k].type) = Get(new.type)
               /\ Get(existing[k].content) = new_content

is_duplicate_message(new, existing) ==
    LET new_id == Get(new.id)
    IN  IF ~ Truthy(new_id) THEN FALSE
        ELSE IF \E k \in 1..Len(existing) : Get(existing[k].id) = new_id THEN TRUE
        ELSE LET new_agent == Get(new.agent_id)
                 new_content == GetDefault(new.content, << >>)
             IN  \E k \in 1..Len(existing) :
                     /\ Get(existing[k].agent_id) = new_agent
                     /\ Get(existing[k].type) = Get(new.type)
                     /\ Get(existing[k].content) = new_content

---------------------------------------------------------------------------
(* Inputs of process_cli_event.                                            *)

\* The longest run of filler characters put around the pieces of an input.
MaxFill == 1

RECURSIVE Fill(_)
Fill(k) == IF k = 0 THEN << >> ELSE << "x" >> \o Fill(k - 1)

Fills == { Fill(k) : k \in 0..MaxFill }

W_initial == << "i", "n", "i", "t", "i", "a", "l" >>
W_access == << "a", "c", "c", "e", "s", "s" >>
W_recon == << "r", "e", "c", "o", "n" >>
W_system == << "s", "y", "s", "t", "e", "m" >>
W_nmap_scan == << "n", "m", "a", "p", "_", "s", "c", "a", "n" >>
W_random_text == << "r", "a", "w", " ", "n", "m", "a", "p", " ", "o", "u", "t", "p", "u", "t" >>

\* What may stand between "initial" and "access" in an agent name.
Separators ==
    { << "_" >>, << "-" >>, << "." >>, << "/" >>, << " " >>, << "\t" >>, << "\n" >>,
      << >>, << " ", " " >>, << "_", "_" >> }

InitialAccessNames ==
    { pre \o W_initial \o sep \o W_access \o suf :
          pre \in Fills, sep \in Separators,
          suf \in { << >>, << "_" >> \o T_summary } }
    \cup { Upper(W_initial \o sep \o W_access \o << "_" >> \o T_agent) :
               sep \in { << "_" >>, << " " >>, << "\t" >> } }
    \cup { << " " >> \o T_initial_access \o << "\n" >> }

SummaryNames ==
    { pre \o T_summary \o suf : pre \in Fills, suf \in { << >>, << "_" >> \o T_agent } }
    \cup { Upper(T_summary), << " ", "S" >> \o Tail(T_summary) \o << "\n" >>,
           SubSeq(T_summary, 1, 6) }

OtherNames == { T_Unknown, W_recon, << >>, None, Absent }

AgentNames == InitialAccessNames \cup SummaryNames \cup OtherNames

\* The heading as the templates write it.
IAHeading == SubSeq(initial_access_safe_template, 1, Len(initial_access_required_heading))

SUHeading == SubSeq(summary_safe_template, 1, Len(summary_required_heading))

SeqToSet(s) == { s[i] : i \in 1..Len(s) }

\* Every banned term of either list, and two near misses.
Terms ==
    SeqToSet(initial_access_banned_terms) \cup SeqToSet(summary_banned_terms)
    \cup { << >>, << "r", "c" >>, << "c", "o", "m", "a", "n", "d" >> }

Contents ==
    { h \o << "\n" >> \o f \o t : h \in { IAHeading, SUHeading }, f \in Fills, t \in Terms }
    \cup { h \o t : h \in { Upper(IAHeading), Lower(IAHeading), Upper(SUHeading),
                            Lower(SUHeading), Tail(IAHeading), Tail(SUHeading) },
                    t \in { << >>, Upper(initial_access_banned_terms[2]) } }
    \cup { Upper(t) \o << " " >> \o h : h \in { IAHeading, SUHeading },
                                       t \in { initial_access_banned_terms[4],
                                               summary_banned_terms[15] } }
    \cup { << >>, None, Absent, W_random_text,
           initial_access_safe_template, summary_safe_template }

SmallContents ==
    { << >>, None, Absent, W_random_text, IAHeading, SUHeading,
      IAHeading \o << " " >> \o initial_access_banned_terms[6],
      SUHeading \o << " " >> \o summary_banned_terms[9] }

\* A raw message that carries one structured tool call.
ToolCalls == << "call nmap_scan" >>

Event(mt, an, c, raw, tn, tdn) ==
    [ message_type |-> mt, agent_name |-> an, content |-> c,
      raw_message |-> raw, tool_name |-> tn, tool_display_name |-> tdn ]

\* message_type "ai": every agent name with every content.
AiEvents ==
    { Event(T_ai, an, c, Absent, Absent, Absent) : an \in AgentNames, c \in Contents }
    \cup { Event(T_ai, an, c, raw, Absent, Absent) :
               an \in { W_recon, T_summary, T_initial_access, None },
               c \in SmallContents,
               raw \in { None, << >>, ToolCalls } }

\* Any other message_type, absent and null included.
FallbackEvents ==
    { Event(mt, an, c, raw, Absent, Absent) :
          mt \in { Absent, None, << >>, W_system, Upper(T_ai) },
          an \in AgentNames, c \in SmallContents, raw \in { Absent, ToolCalls } }

ToolEvents ==
    { Event(T_tool, an, c, Absent, tn, tdn) :
          an \in { Absent, None, W_recon, T_summary, T_initial_access },
          c \in Contents,
          tn \in { Absent, None, W_nmap_scan },
          tdn \in { Absent, W_recon } }

UserEvents ==
    { Event(T_user, an, c, Absent, Absent, Absent) :
          an \in { Absent, None, W_recon, T_summary, T_initial_access },
          c \in Contents }

Events == AiEvents \cup FallbackEvents \cup ToolEvents \cup UserEvents

---------------------------------------------------------------------------
(* The state machine: one call of one operation on drawn inputs.           *)

\* No call has returned yet.
Pending == [pending |-> TRUE]

\* The chat page before its first script run: no flag is set.
InitChatPage ==
    /\ page = "idle"
    /\ workflow_running = FALSE
    /\ cancel_workflow = FALSE
    /\ pending_new_chat = FALSE
    /\ new_chat_requests = 0
    /\ deferred_requests = 0
    /\ finalized_direct = 0
    /\ finalized_deferred = 0

Init ==
    /\ pc = "start"
    /\ event \in Events
    /\ clock = 0
    /\ result = Pending
    /\ events = << >>
    /\ status = Pending
    /\ new_message = Pending
    /\ existing_messages = << >>
    /\ duplicate = Pending
    /\ InitChatPage

\* message = processor.process_cli_event(event_data)
ProcessCliEvent ==
    /\ pc = "start"
    /\ result' = process_cli_event(event, clock)
    /\ clock' = clock + 1
    /\ pc' = "done"
    /\ UNCHANGED << event, events, status, new_message, existing_messages, duplicate >>
    /\ UNCHANGED chat_vars

Next == ProcessCliEvent

Spec == Init /\ [][Next]_vars

---------------------------------------------------------------------------
(* extract_agent_status on a drawn event sequence.                         *)

\* The longest event sequence.
MaxEvents == 3

W_status == << "s", "t", "a", "t", "u", "s" >>

StatusEvents ==
    [ type : { T_message, W_status },
      message_type : { T_ai, T_tool },
      agent_name : { Absent, << >>, T_Unknown, << "R" >> \o Tail(W_recon), T_summary } ]

SeqsUpTo(S, n) == UNION { [1..k -> S] : k \in 0..n }

InitStatus ==
    /\ pc = "start"
    /\ events \in SeqsUpTo(StatusEvents, MaxEvents)
    /\ status = Pending
    /\ event = Pending
    /\ clock = 0
    /\ result = Pending
    /\ new_message = Pending
    /\ existing_messages = << >>
    /\ duplicate = Pending
    /\ InitChatPage

\* status = processor.extract_agent_status(events)
ExtractAgentStatus ==
    /\ pc = "start"
    /\ status' = extract_agent_status(events)
    /\ pc' = "done"
    /\ UNCHANGED << event, clock, result, events, new_message, existing_messages,
                    duplicate >>
    /\ UNCHANGED chat_vars

NextStatus == ExtractAgentStatus

SpecStatus == InitStatus /\ [][NextStatus]_vars

---------------------------------------------------------------------------
(* is_duplicate_message on a drawn candidate and a drawn list.             *)

\* The longest list of existing messages.
MaxMessages == 2

Id1 == << "i", "d", "1" >>
Id2 == << "i", "d", "2" >>

ExistingMessages ==
    [ type : { T_ai, T_tool },
      agent_id : { Absent, W_recon },
      content : { Absent, << >>, << "x" >> },
      id : { Absent, Id1, Id2 } ]

CandidateMessages ==
    [ type : { T_ai, T_tool },
      agent_id : { Absent, W_recon },
      content : { Absent, << >>, << "x" >> },
      id : { Absent, << >>, Id1 } ]

InitDup ==
    /\ pc = "start"
    /\ new_message \in CandidateMessages
    /\ existing_messages \in SeqsUpTo(ExistingMessages, MaxMessages)
    /\ duplicate = Pending
    /\ event = Pending
    /\ clock = 0
    /\ result = Pending
    /\ events = << >>
    /\ status = Pending
    /\ InitChatPage

\* duplicate = processor.is_duplicate_message(new_message, existing_messages)
IsDuplicateMessage ==
    /\ pc = "start"
    /\ duplicate' = [ returned |-> is_duplicate_message(new_message, existing_messages) ]
    /\ pc' = "done"
    /\ UNCHANGED << event, clock, result, events, status, new_message,
                    existing_messages >>
    /\ UNCHANGED chat_vars

NextDup == IsDuplicateMessage

SpecDup == InitDup /\ [][NextDup]_vars

---------------------------------------------------------------------------
(* The new-chat state machine of the chat page, src/frontend/pages/01_Chat.py. *)
(* One script thread runs the page for a session, top to bottom, once per      *)
(* interaction; the workflow is awaited in that thread (asyncio.run), so each  *)
(* handler below reads and writes the session flags in one step.               *)

\* The most calls of _create_new_chat in one behaviour.
MaxRequests == 3

\* The variables of the message processor, which the page script leaves alone.
processor_vars ==
    << pc, event, clock, result, events, status, new_message, existing_messages,
       duplicate >>

\* The run of the page script does not touch the request counters.
NoFinalize == UNCHANGED << finalized_direct, finalized_deferred >>

\* A script run begins (an interaction of the user): main() up to line 80.
StartRun ==
    /\ page = "idle"
    /\ page' = "top"
    /\ UNCHANGED << workflow_running, cancel_workflow, pending_new_chat,
                    new_chat_requests, deferred_requests >>
    /\ NoFinalize
    /\ UNCHANGED processor_vars

\* if pending_new_chat and not workflow_running: reset both flags, then
\* _finalize_new_chat().  The check main() and _handle_user_input share.
DeferredCheck ==
    IF pending_new_chat /\ ~ workflow_running
    THEN /\ pending_new_chat' = FALSE
         /\ cancel_workflow' = FALSE
         /\ finalized_deferred' = finalized_deferred + 1
    ELSE UNCHANGED << pending_new_chat, cancel_workflow, finalized_deferred >>

\* main(), lines 82-85, then on to the sidebar.
main ==
    /\ page = "top"
    /\ DeferredCheck
    /\ page' = "sidebar"
    /\ UNCHANGED << workflow_running, new_chat_requests, deferred_requests,
                    finalized_direct >>
    /\ UNCHANGED processor_vars

\* A _create_new_chat that finalizes whatever the workflow does.
CreateNewChatUnguarded ==
    /\ page = "sidebar"
    /\ new_chat_requests < MaxRequests
    /\ new_chat_requests' = new_chat_requests + 1
    /\ finalized_direct' = finalized_direct + 1
    /\ UNCHANGED << page, workflow_running, cancel_workflow, pending_new_chat,
                    deferred_requests, finalized_deferred >>
    /\ UNCHANGED processor_vars

\* _create_new_chat(), the sidebar's on_new_chat callback (line 210) and the
\* replay page's "Start New Chat" button (line 448).
_create_new_chat ==
    /\ page = "sidebar"
    /\ new_chat_requests < MaxRequests
    /\ new_chat_requests' = new_chat_requests + 1
    /\ IF workflow_running
       THEN /\ cancel_workflow' = TRUE
            /\ pending_new_chat' = TRUE
            /\ deferred_requests' = deferred_requests + 1
            /\ UNCHANGED finalized_direct
       ELSE /\ finalized_direct' = finalized_direct + 1
            /\ UNCHANGED << cancel_workflow, pending_new_chat, deferred_requests >>
    /\ UNCHANGED << page, workflow_running, finalized_deferred >>
    /\ UNCHANGED processor_vars

\* main() returns before the chat interface: no model chosen (line 90), replay
\* mode (line 117), or a rerun asked for (lines 194, 279).
EndRunEarly ==
    /\ page = "sidebar"
    /\ page' = "idle"
    /\ UNCHANGED << workflow_running, cancel_workflow, pending_new_chat,
                    new_chat_requests, deferred_requests >>
    /\ NoFinalize
    /\ UNCHANGED processor_vars

\* _display_main_interface() reaches _handle_user_input().
DisplayMainInterface ==
    /\ page = "sidebar"
    /\ page' = "input"
    /\ UNCHANGED << workflow_running, cancel_workflow, pending_new_chat,
                    new_chat_requests, deferred_requests >>
    /\ NoFinalize
    /\ UNCHANGED processor_vars

\* _handle_user_input(), line 295 false: no input, or a workflow is running.
NoUserInput ==
    /\ page = "input"
    /\ page' = "idle"
    /\ UNCHANGED << workflow_running, cancel_workflow, pending_new_chat,
                    new_chat_requests, deferred_requests >>
    /\ NoFinalize
    /\ UNCHANGED processor_vars

\* _handle_user_input(), line 295 true: execute_workflow() is awaited; the
\* workflow handler marks the workflow as running.
WorkflowStart ==
    /\ page = "input"
    /\ ~ workflow_running
    /\ page' = "workflow"
    /\ workflow_running' = TRUE
    /\ UNCHANGED << cancel_workflow, pending_new_chat, new_chat_requests,
                    deferred_requests >>
    /\ NoFinalize
    /\ UNCHANGED processor_vars

\* execute_workflow() returns without a workflow: validation failed (line 300).
WorkflowRefused ==
    /\ page = "input"
    /\ ~ workflow_running
    /\ page' = "after"
    /\ UNCHANGED << workflow_running, cancel_workflow, pending_new_chat,
                    new_chat_requests, deferred_requests >>
    /\ NoFinalize
    /\ UNCHANGED processor_vars

\* _run_async_safely() returns: the workflow ended and the handler cleared the
\* flag, or the script was stopped inside it (lines 337-339) and the flag stays.
WorkflowReturns ==
    /\ page = "workflow"
    /\ page' = "after"
    /\ workflow_running' \in { FALSE, workflow_running }
    /\ UNCHANGED << cancel_workflow, pending_new_chat, new_chat_requests,
                    deferred_requests >>
    /\ NoFinalize
    /\ UNCHANGED processor_vars

\* The workflow handler clears the flag of a workflow left running.
WorkflowStops ==
    /\ page # "workflow"
    /\ workflow_running
    /\ workflow_running' = FALSE
    /\ UNCHANGED << page, cancel_workflow, pending_new_chat, new_chat_requests,
                    deferred_requests >>
    /\ NoFinalize
    /\ UNCHANGED processor_vars

\* _handle_user_input(), lines 344-349, and the script run ends.
_handle_user_input ==
    /\ page = "after"
    /\ DeferredCheck
    /\ page' = "idle"
    /\ UNCHANGED << workflow_running, new_chat_requests, deferred_requests,
                    finalized_direct >>
    /\ UNCHANGED processor_vars

InitChat ==
    /\ InitChatPage
    /\ pc = "start"
    /\ event = Pending
    /\ clock = 0
    /\ result = Pending
    /\ events = << >>
    /\ status = Pending
    /\ new_message = Pending
    /\ existing_messages = << >>
    /\ duplicate = Pending

NextChat ==
    \/ StartRun
    \/ main
    \/ _create_new_chat
    \/ EndRunEarly
    \/ DisplayMainInterface
    \/ NoUserInput
    \/ WorkflowStart
    \/ WorkflowRefused
    \/ WorkflowReturns
    \/ WorkflowStops
    \/ _handle_user_input

SpecChat == InitChat /\ [][NextChat]_vars

---------------------------------------------------------------------------
(* What the claims speak of.                                               *)

IsText(v) == v # Absent /\ v # None

\* The call under study was process_cli_event and it is over.
Processed == pc = "done" /\ result # Pending

\* The content process_cli_event read from the event.
InputContent == GetDefault(event.content, << >>)

\* The agent name process_cli_event read from the event.
InputAgent == GetDefault(event.agent_name, T_Unknown)

\* name in lower case with every character of seps written as an underscore.
Normalized(name, seps) ==
    [i \in 1..Len(name) |-> IF name[i] \in seps THEN "_" ELSE LowerChar(name[i])]

\* The name holds "initial_access" once the separators seps are underscores.
NamesInitialAccess(name, seps) ==
    IsText(name) /\ Contains(T_initial_access, Normalized(name, seps))

NamesSummary(name) == IsText(name) /\ Contains(T_summary, Lower(name))

SeparatorsAndWhitespace == { "-", ".", "/", "_" } \cup Whitespace

SeparatorsAndSpace == { "-", ".", "/", "_", " " }

\* text holds the heading and none of the terms, whatever the case of its letters.
PassesGate(text, heading, terms) ==
    /\ IsText(text)
    /\ Contains(heading, Lower(text))
    /\ \A k \in 1..Len(terms) : ~ Contains(terms[k], Lower(text))

PassesInitialAccessGate(text) ==
    PassesGate(text, initial_access_required_heading, initial_access_banned_terms)

PassesSummaryGate(text) ==
    PassesGate(text, summary_required_heading, summary_banned_terms)

\* The gate applied to the fallback template, computed once.
InitialAccessTemplatePasses == PassesInitialAccessGate(_initial_access_safe_template)

\* The AI path ran the Initial-Access Sanitizer resp. the Summary Sanitizer.
AiPath == GetDefault(event.message_type, << >>) \notin { T_tool, T_user }

InitialAccessSanitized == AiPath /\ _is_initial_access_agent(InputAgent)

SummarySanitized ==
    AiPath /\ ~ _is_initial_access_agent(InputAgent) /\ _is_summary_agent(InputAgent)

---------------------------------------------------------------------------
(* C1 *)

\* C1 as stated: an "ai" event whose agent name holds "initial_access" once
\* '-', '.', '/', '_' and every whitespace character are underscores returns its
\* content unchanged if the content passes the initial-access gate and the
\* initial-access fallback template otherwise.
C1_AsStated ==
    (Processed /\ event.message_type = T_ai
        /\ NamesInitialAccess(event.agent_name, SeparatorsAndWhitespace))
    => /\ Returned(result)
       /\ result.content = IF PassesInitialAccessGate(InputContent)
                           THEN InputContent
                           ELSE initial_access_safe_template

\* C1 (amended): an "ai" event whose agent name holds "initial_access" once
\* '-', '.', '/', '_' and the space character are underscores (letters compared
\* without case) returns its content unchanged if the content holds the heading
\* "Initial Access Assessment (Simulated)" and no initial-access banned term,
\* and exactly the initial-access fallback template otherwise.
C1_InitialAccessGate ==
    (Processed /\ event.message_type = T_ai
        /\ NamesInitialAccess(event.agent_name, SeparatorsAndSpace))
    => /\ Returned(result)
       /\ result.content = IF PassesInitialAccessGate(InputContent)
                           THEN InputContent
                           ELSE initial_access_safe_template

\* C1 witness: an agent spelled "INITIAL ACCESS_AGENT" whose content passes the
\* gate and is returned unchanged.
C1_Witness ==
    /\ Processed /\ event.message_type = T_ai
    /\ event.agent_name = Upper(W_initial \o << " " >> \o W_access \o << "_" >> \o T_agent)
    /\ PassesInitialAccessGate(InputContent)
    /\ Returned(result) /\ result.content = event.content

---------------------------------------------------------------------------
(* C2 *)

\* C2: an "ai" event whose agent name holds "summary" (letters compared without
\* case) and is no initial-access name (no name that holds "initial_access"
\* once '-', '.', '/', '_' and the space are underscores) returns its content
\* unchanged if the
\* content holds the heading "Engagement Summary (Public Demo Safe)" and no
\* summary banned term, and exactly the summary fallback template otherwise.
C2_SummaryGate ==
    (Processed /\ event.message_type = T_ai
        /\ NamesSummary(event.agent_name)
        /\ ~ NamesInitialAccess(event.agent_name, SeparatorsAndSpace))
    => /\ Returned(result)
       /\ result.content = IF PassesSummaryGate(InputContent)
                           THEN InputContent
                           ELSE summary_safe_template

\* C2 witness: a summary agent whose content holds the heading and a banned
\* term, replaced by the summary fallback template.
C2_Witness ==
    /\ Processed /\ event.message_type = T_ai
    /\ event.agent_name = Upper(T_summary)
    /\ IsText(event.content)
    /\ Contains(summary_required_heading, Lower(event.content))
    /\ Contains(summary_banned_terms[15], Lower(event.content))
    /\ Returned(result) /\ result.content = summary_safe_template
    /\ result.content # event.content

---------------------------------------------------------------------------
(* C3 *)

\* C3: whatever the input content, the output of the Initial-Access Sanitizer
\* holds the required heading and none of the initial-access banned terms
\* (letters compared without case); the fallback template does so itself.
C3_InitialAccessOutputSafe ==
    (Processed /\ InitialAccessSanitized)
    => /\ Returned(result)
       /\ IF result.content = _initial_access_safe_template
          THEN InitialAccessTemplatePasses
          ELSE PassesInitialAccessGate(result.content)

\* C3 witness: the sanitizer was given the empty content and put the fallback
\* template in its place.
C3_Witness ==
    /\ Processed /\ InitialAccessSanitized
    /\ event.content = << >>
    /\ Returned(result) /\ result.content = _initial_access_safe_template

---------------------------------------------------------------------------
(* C4 *)

\* The summary banned terms as the claim lists them.
C4_Terms ==
    << << "c", "v", "e" >>, << "e", "x", "p", "l", "o", "i", "t" >>,
       << "b", "a", "c", "k", "d", "o", "o", "r" >>,
       << "m", "e", "t", "a", "s", "p", "l", "o", "i", "t" >>,
       << "m", "s", "f", "c", "o", "n", "s", "o", "l", "e" >>,
       << "p", "a", "y", "l", "o", "a", "d" >>,
       << "r", "e", "v", "e", "r", "s", "e", " ", "s", "h", "e", "l", "l" >>,
       << "n", "e", "t", "c", "a", "t" >>, << "h", "y", "d", "r", "a" >>,
       << "s", "q", "l", "m", "a", "p" >>,
       << "c", "o", "m", "m", "a", "n", "d" >>, << "r", "c", "e" >>,
       << "r", "e", "m", "o", "t", "e", " ", "c", "o", "m", "m", "a", "n", "d", " ",
          "e", "x", "e", "c", "u", "t", "i", "o", "n" >>,
       << "s", "h", "e", "l", "l" >>, << Backtick, Backtick, Backtick >> >>

C4_TemplatePasses ==
    PassesGate(_summary_safe_template, summary_required_heading, C4_Terms)

\* C4 as stated: whatever the input content, the output of the Summary Sanitizer
\* holds the heading "engagement summary (public demo safe)" and none of the
\* summary banned terms (letters compared without case); the summary fallback
\* template does so itself.
C4_AsStated ==
    (Processed /\ SummarySanitized)
    => /\ Returned(result)
       /\ IF result.content = _summary_safe_template
          THEN C4_TemplatePasses
          ELSE PassesGate(result.content, summary_required_heading, C4_Terms)

---------------------------------------------------------------------------
(* C5 *)

\* C5 as stated: an event of message_type "tool" or "user", whatever its agent
\* name and content, returns a message of that type whose content is the
\* input content.
C5_AsStated ==
    (Processed /\ event.message_type \in { T_tool, T_user })
    => /\ Returned(result)
       /\ result.type = event.message_type
       /\ result.content = InputContent

---------------------------------------------------------------------------
(* C6 *)

\* C6 as stated: process_cli_event never raises; whatever fields are absent,
\* empty or null, it returns a message, an absent content read as the empty
\* text and an absent agent as "Unknown".
C6_AsStated ==
    Processed
    => /\ ~ Raised(result)
       /\ Returned(result)
       /\ (event.content = Absent /\ ~ InitialAccessSanitized /\ ~ SummarySanitized)
              => result.content = << >>
       /\ (event.agent_name = Absent /\ AiPath) => result.agent_id = Lower(T_Unknown)

---------------------------------------------------------------------------
(* C7 *)

\* The call under study was is_duplicate_message and it is over.
Deduplicated == pc = "done" /\ duplicate # Pending

\* The candidate carries an id that is neither absent nor empty.
HasId(m) == m.id # Absent /\ m.id # << >>

\* Some existing message has the candidate's (non-empty) id.
IdMatch ==
    HasId(new_message)
    /\ \E k \in 1..Len(existing_messages) : existing_messages[k].id = new_message.id

\* Some existing message has the candidate's type, agent_id and content.
ContentMatch ==
    \E k \in 1..Len(existing_messages) :
        /\ existing_messages[k].type = new_message.type
        /\ existing_messages[k].agent_id = new_message.agent_id
        /\ existing_messages[k].content = new_message.content

\* C7 as stated: for every candidate and every list the result is true whenever
\* an existing message has the candidate's type, agent_id and content, and it is
\* false only if neither the id check nor that check finds a match.
C7_AsStated ==
    Deduplicated
    => /\ ContentMatch => duplicate.returned = TRUE
       /\ duplicate.returned = FALSE => (~ IdMatch /\ ~ ContentMatch)

\* C7 (amended): for every candidate that has a non-empty id and a content
\* field, and every list, the result is true whenever an existing message has
\* the candidate's type, agent_id and content, also when their ids differ, and
\* it is false only if neither the id check nor that check finds a match.
C7_ContentDuplicate ==
    (Deduplicated /\ HasId(new_message) /\ new_message.content # Absent)
    => /\ ContentMatch => duplicate.returned = TRUE
       /\ duplicate.returned = FALSE => (~ IdMatch /\ ~ ContentMatch)

\* C7 witness: no existing message has the candidate's id, the second one has
\* its type, agent_id and content, and the result is true.
C7_Witness ==
    /\ Deduplicated /\ HasId(new_message) /\ ~ IdMatch
    /\ Len(existing_messages) = 2
    /\ existing_messages[1].content # new_message.content
    /\ existing_messages[2].type = new_message.type
    /\ existing_messages[2].agent_id = new_message.agent_id
    /\ existing_messages[2].content = new_message.content
    /\ existing_messages[2].id = Id2
    /\ duplicate.returned = TRUE

---------------------------------------------------------------------------
(* C8 *)

\* C8: for every candidate with a non-empty id and every list that holds a
\* message with that id, at any position and whatever its other fields, the
\* result is true.
C8_SameIdIsDuplicate ==
    (Deduplicated /\ IdMatch) => duplicate.returned = TRUE

\* C8 witness: only the last existing message has the candidate's id, it differs
\* from the candidate in type and content, and the result is true.
C8_Witness ==
    /\ Deduplicated /\ HasId(new_message)
    /\ Len(existing_messages) = 2
    /\ existing_messages[1].id # new_message.id
    /\ existing_messages[2].id = new_message.id
    /\ existing_messages[2].type # new_message.type
    /\ existing_messages[2].content # new_message.content
    /\ ~ ContentMatch
    /\ duplicate.returned = TRUE

---------------------------------------------------------------------------
(* C9 *)

\* The call under study was extract_agent_status and it is over.
Extracted == pc = "done" /\ status # Pending

\* The event names an agent: a name that is present, not empty, not "Unknown".
NamesAgent(e) == e.agent_name \notin { Absent, None, << >>, T_Unknown }

\* Events of message_type "ai" that name an agent.
AiNamed == { i \in 1..Len(events) : events[i].message_type = T_ai /\ NamesAgent(events[i]) }

\* Those of them whose type is "message".
AiMessageNamed == { i \in AiNamed : events[i].type = T_message }

Last(S) == CHOOSE i \in S : \A j \in S : j <= i

\* C9 as stated: active_agent is the lowercased agent name of the most recent
\* event of message_type "ai" that names an agent, and None only if there is none.
C9_AsStated ==
    Extracted
    => IF AiNamed = {} THEN status.active_agent = None
       ELSE status.active_agent = Lower(events[Last(AiNamed)].agent_name)

\* C9 (amended): active_agent is the lowercased agent name of the most recent
\* event whose type is "message", whose message_type is "ai" and whose agent name
\* is not empty and not "Unknown"; older events never override it, and it is
\* None only if the sequence holds no such event.
C9_MostRecentActiveAgent ==
    Extracted
    => IF AiMessageNamed = {} THEN status.active_agent = None
       ELSE status.active_agent = Lower(events[Last(AiMessageNamed)].agent_name)

\* C9 witness: two AI messages name different agents, an AI message of agent
\* "Unknown" follows them, and active_agent is the second agent in lower case.
C9_Witness ==
    /\ Extracted /\ Len(events) = 3
    /\ AiMessageNamed = { 1, 2 }
    /\ events[3].type = T_message /\ events[3].message_type = T_ai
    /\ events[3].agent_name = T_Unknown
    /\ events[1].agent_name = T_summary
    /\ events[2].agent_name = << "R" >> \o Tail(W_recon)
    /\ status.active_agent = W_recon

---------------------------------------------------------------------------
(* C10 *)

\* C10: current_step is the number of events whose type is "message" and
\* completed_agents is the empty list; the empty sequence gives active_agent
\* None, completed_agents empty and current_step 0.
C10_StepCount ==
    Extracted
    => /\ status.current_step = Cardinality({ i \in 1..Len(events) : events[i].type = T_message })
       /\ status.completed_agents = << >>
       /\ events = << >>
              => status = [ active_agent |-> None, completed_agents |-> << >>,
                            current_step |-> 0 ]

\* C10 witness: of three events the first and the last are of type "message",
\* and current_step is 2.
C10_Witness ==
    /\ Extracted /\ Len(events) = 3
    /\ events[1].type = T_message /\ events[2].type # T_message
    /\ events[3].type = T_message
    /\ status.current_step = 2 /\ status.completed_agents = << >>

---------------------------------------------------------------------------
(* C11 *)

\* The message_type is none of "ai", "tool", "user" (absent and empty included).
OtherMessageType ==
    GetDefault(event.message_type, << >>) \notin { T_ai, T_tool, T_user }

\* The content the role of the agent name lets through: the claim's reading of
\* the two gates, the initial-access role first.
RoleContent(agent, content) ==
    IF NamesInitialAccess(agent, SeparatorsAndSpace)
    THEN IF PassesInitialAccessGate(content) THEN content
         ELSE initial_access_safe_template
    ELSE IF NamesSummary(agent)
    THEN IF PassesSummaryGate(content) THEN content ELSE summary_safe_template
    ELSE content

\* C11: an event whose message_type is none of "ai", "tool", "user" (absent and
\* empty included) ends as the same event with message_type "ai" ends at the
\* same instant; the message it returns has type "ai", the lowercased agent name
\* as agent_id and the content the role's gate lets through.
C11_FallbackIsAi ==
    (Processed /\ OtherMessageType)
    => /\ result = process_cli_event([event EXCEPT !.message_type = T_ai], clock - 1)
       /\ Returned(result)
              => /\ result.type = T_ai
                 /\ result.agent_id = Lower(InputAgent)
                 /\ result.content = RoleContent(InputAgent, InputContent)

\* C11 witness: an event without message_type, of a summary agent, whose content
\* holds the heading and a banned term, returned as an "ai" message that holds
\* the summary fallback template.
C11_Witness ==
    /\ Processed /\ event.message_type = Absent
    /\ NamesSummary(event.agent_name)
    /\ IsText(event.content)
    /\ Contains(summary_required_heading, Lower(event.content))
    /\ ~ PassesSummaryGate(event.content)
    /\ Returned(result) /\ result.type = T_ai
    /\ result.content = summary_safe_template

---------------------------------------------------------------------------
(* C12 *)

\* The agent name is classified as neither role.
NeitherRole ==
    ~ _is_initial_access_agent(InputAgent) /\ ~ _is_summary_agent(InputAgent)

\* C12 as stated: an "ai" event whose agent name is classified as neither the
\* initial-access role nor the summary role returns its content unmodified,
\* also when the content lacks both headings or holds banned terms.
C12_AsStated ==
    (Processed /\ event.message_type = T_ai /\ NeitherRole)
    => /\ Returned(result)
       /\ result.content = InputContent

---------------------------------------------------------------------------
(* C13 *)

\* A step that calls _finalize_new_chat.
Finalizes ==
    finalized_direct' # finalized_direct \/ finalized_deferred' # finalized_deferred

\* A step that is a new-chat request.
RequestsNewChat == new_chat_requests' = new_chat_requests + 1

\* A step whose deferred check calls _finalize_new_chat.
FinalizesDeferred == finalized_deferred' # finalized_deferred

\* C13: over any sequence of new-chat requests, page runs and workflow starts
\* and ends, _finalize_new_chat is never called while workflow_running is true;
\* a new-chat request made while workflow_running is true sets cancel_workflow
\* and pending_new_chat and does not finalize; a deferred finalize happens only
\* at a check that finds pending_new_chat true and workflow_running false and
\* that resets pending_new_chat and cancel_workflow, once per check, so that
\* the deferred finalizes never outnumber the deferred requests.
C13_NewChatStateMachine ==
    /\ [][ Finalizes => (~ workflow_running /\ ~ workflow_running') ]_vars
    /\ [][ (RequestsNewChat /\ workflow_running)
              => /\ cancel_workflow' /\ pending_new_chat'
                 /\ deferred_requests' = deferred_requests + 1
                 /\ ~ Finalizes ]_vars
    /\ [][ FinalizesDeferred
              => /\ pending_new_chat /\ ~ workflow_running
                 /\ ~ pending_new_chat' /\ ~ cancel_workflow'
                 /\ finalized_deferred' = finalized_deferred + 1
                 /\ page \in { "top", "after" } ]_vars
    /\ [](finalized_deferred <= deferred_requests)

\* C13 witness: two requests were deferred while the workflow ran, the workflow
\* stopped, and one check finalized once and reset both flags.
C13_Witness ==
    /\ deferred_requests = 2 /\ finalized_deferred = 1 /\ finalized_direct = 0
    /\ ~ pending_new_chat /\ ~ cancel_workflow /\ ~ workflow_running
    /\ page = "sidebar"

---------------------------------------------------------------------------
(* C14 *)

\* C14: an agent name that holds both "initial_access" and "summary" is given
\* the Initial-Access Sanitizer alone: the message holds the input content
\* unchanged if it passes the initial-access gate, whatever the summary gate
\* says of it, and the initial-access fallback template otherwise, never the
\* summary fallback template.
C14_InitialAccessFirst ==
    (Processed /\ AiPath
        /\ NamesInitialAccess(event.agent_name, SeparatorsAndSpace)
        /\ NamesSummary(event.agent_name))
    => /\ Returned(result)
       /\ result.content = IF PassesInitialAccessGate(InputContent)
                           THEN InputContent
                           ELSE initial_access_safe_template
       /\ result.content # summary_safe_template

\* C14 witness: the agent "initial_access_summary" with a content that passes
\* the initial-access gate and holds "netcat", banned for summaries only: the
\* content is returned unchanged.
C14_Witness ==
    /\ Processed /\ event.message_type = T_ai
    /\ event.agent_name = T_initial_access \o << "_" >> \o T_summary
    /\ PassesInitialAccessGate(InputContent)
    /\ Contains(summary_banned_terms[8], Lower(InputContent))
    /\ ~ PassesSummaryGate(InputContent)
    /\ Returned(result) /\ result.content = event.content

=============================================================================
